---- MODULE Spec2Model ----
(***************************************************************************)
(* Model of the DuckDB Azure blob-storage filesystem adapter               *)
(* (src/src/azure_filesystem.cpp, src/src/include/azure_filesystem.hpp).   *)
(*                                                                         *)
(* Two groups of state:                                                    *)
(*   - the read engine: one AzureStorageFileHandle (hfh), the remote       *)
(*     object it reads (blob) and the observable outcome of the last call  *)
(*     on it (rd);                                                         *)
(*   - the session: its settings, its registered_state map of contexts,    *)
(*     the contexts built so far and the outcome of the last open, glob or *)
(*     session event (call).                                               *)
(***************************************************************************)
EXTENDS Integers, Sequences, FiniteSets, TLC

(***************************************************************************)
(* Bounds of the model.                                                    *)
(***************************************************************************)
\* idx_t is an unsigned 64 bit integer; the model keeps the wrap-around of
\* unsigned arithmetic with a narrower word of IdxBits bits.
IdxBits == 5
\* largest remote object, in bytes
MaxLen == 3
\* largest configured azure_read_buffer_size
MaxBuf == 2
\* largest nr_bytes a caller asks for in one read
MaxRead == 3

IdxMod == 2 ^ IdxBits

\* unsigned (idx_t) arithmetic
Add(a, b) == (a + b) % IdxMod
Sub(a, b) == (a - b + IdxMod) % IdxMod

MinValue(a, b) == IF a < b THEN a ELSE b

VARIABLES
    blob,             \* the remote object: blob[i + 1] is the byte at offset i
    hfh,              \* the AzureStorageFileHandle
    rd,               \* outcome of the last call on the handle
    session_settings, \* the configuration settings of the session
    session_secret,   \* what the secret manager finds for azure paths
    registered_state, \* client_context->registered_state: account name -> context
    contexts,         \* every AzureContextState built so far
    call,             \* outcome of the last open, glob or session event
    handed,           \* history: account name -> the context the calls made
                      \* with caching enabled since the last session end
                      \* were handed
    fn,               \* the last call of a function that touches no state
    threads           \* the calls of GetOrCreateStorageContext in flight, by thread
                      \* (Match, ParseUrl): its arguments and its result

readVars == <<blob, hfh, rd>>
sessionVars == <<session_settings, session_secret, registered_state, contexts, call, handed,
                 fn, threads>>
vars == <<blob, hfh, rd, session_settings, session_secret, registered_state, contexts, call,
          handed, fn,
          threads>>

\* The byte the remote object holds at offset i (i < Len(blob)).
BlobByte(i) == 10 + i

Blobs == {[i \in 1..n |-> BlobByte(i - 1)] : n \in 0..MaxLen}

\* Content of memory returned by new data_t[n]: not initialised by the code.
\* The model fills it with a byte that no remote object holds, so that a
\* copy out of memory the code never filled cannot pass for object data.
JunkBytes == {255}

FlagSets == {{"READ"}, {"READ", "DIRECT_IO"}}

(***************************************************************************)
(* AzureReadOptions, with the defaults of the header scaled to the model:  *)
(* only buffer_size decides anything in the read engine.                   *)
(***************************************************************************)
ReadOptions(buffer_size) ==
    [transfer_concurrency |-> 5, transfer_chunk_size |-> buffer_size, buffer_size |-> buffer_size]

(***************************************************************************)
(* AzureStorageFileHandle::AzureStorageFileHandle, after a successful      *)
(* GetProperties: length is the blob size, every read field is 0 and the   *)
(* read buffer is allocated when the READ flag is set.                     *)
(***************************************************************************)
NewHandle(flags, blob_size, read_options, junk) ==
    [flags            |-> flags,
     length           |-> blob_size,
     buffer_available |-> 0,
     buffer_idx       |-> 0,
     file_offset      |-> 0,
     buffer_start     |-> 0,
     buffer_end       |-> 0,
     read_buffer      |-> IF "READ" \in flags
                          THEN [i \in 1..read_options.buffer_size |-> junk]
                          ELSE <<>>,
     read_options     |-> read_options]

(***************************************************************************)
(* AzureStorageFileSystem::ReadRange: one ranged fetch of                  *)
(* [file_offset, file_offset + buffer_out_len) into dest at dest_off.      *)
(* The service transfers the bytes of the range that the object has; the   *)
(* rest of the destination keeps what it held.  ok = FALSE is a            *)
(* StorageException, rethrown as IOException, with nothing transferred.    *)
(***************************************************************************)
ReadRange(dest, dest_off, file_offset, buffer_out_len, ok) ==
    [threw |-> ~ok,
     data  |-> IF ~ok THEN dest
               ELSE [i \in 1..Len(dest) |->
                       IF /\ i > dest_off
                          /\ i <= dest_off + buffer_out_len
                          /\ file_offset + (i - dest_off) <= Len(blob)
                       THEN blob[file_offset + (i - dest_off)]
                       ELSE dest[i]]]

Fetch(kind, offset, len) == [kind |-> kind, offset |-> offset, len |-> len]

\* mutant: the first byte of the window is not recognised as buffered
InWindow_StrictStart(h, location) == location > h.buffer_start /\ location < h.buffer_end

\* line 250: location falls within the current buffer window
InWindow(h, location) == location >= h.buffer_start /\ location < h.buffer_end

\* mutant: the refill is sized to the rest of the file, not to the buffer
NewBufferAvailable_WholeFile(h) == Sub(h.length, h.file_offset)

\* mutant: the refill asks for a whole buffer whatever is left of the file
NewBufferAvailable_IgnoresLength(h) == h.read_options.buffer_size

\* mutant: the refill may be one byte more than the buffer holds
NewBufferAvailable_OneMore(h) ==
    MinValue(h.read_options.buffer_size + 1, Sub(h.length, h.file_offset))

\* line 275: what a refill of the whole buffer would provide
NewBufferAvailable(h) ==
    MinValue(h.read_options.buffer_size, Sub(h.length, h.file_offset))

\* mutant: the buffer is refilled however much is left to read
BypassBuffer_Never(to_read, new_buffer_available) == FALSE

\* line 278: the rest of the request is more than a refill provides
BypassBuffer(to_read, new_buffer_available) == to_read > new_buffer_available

\* mutant: the direct fetch ignores the bytes already copied from the buffer
BypassOffset_IgnoresCopied(location, buffer_offset) == location

\* line 279: where the direct fetch of the rest of the request starts
BypassOffset(location, buffer_offset) == Add(location, buffer_offset)

\* lines 170-171: the length an implicit-offset read passes on
ClampToRemaining(h, nr_bytes) == MinValue(Sub(h.length, h.file_offset), nr_bytes)

(***************************************************************************)
(* The copy loop of Read(handle, buffer, nr_bytes, location), lines        *)
(* 260-292.  st holds the handle and the locals of the call:               *)
(*   to_read, buffer_offset, out (the caller's buffer), the ranged         *)
(*   fetches issued so far, whether the call threw, whether D_ASSERT and   *)
(*   the bounds of read_buffer were respected by every memcpy.             *)
(***************************************************************************)
\* iterations of the copy loop the model follows in one call
MaxIterations == 4

RECURSIVE ReadLoop(_, _, _)
RECURSIVE LoopBody(_, _, _)
\* line 260: while (to_read > 0), left by the break of line 283 or by a throw
ReadLoop(st, location, ok) ==
    IF st.to_read = 0 \/ st.threw \/ st.stop THEN st
    ELSE IF st.iterations >= MaxIterations THEN [st EXCEPT !.stop = TRUE]
    ELSE LoopBody([st EXCEPT !.iterations = st.iterations + 1], location, ok)

\* lines 261-291: one iteration
LoopBody(st, location, ok) ==
      LET h == st.h
          buffer_read_len == MinValue(h.buffer_available, st.to_read)
          \* lines 262-272: copy from the read buffer
          st1 ==
            IF buffer_read_len > 0
            THEN [st EXCEPT
                    !.assert_ok = st.assert_ok /\
                        (h.buffer_start + h.buffer_idx + buffer_read_len <= h.buffer_end),
                    !.in_bounds = st.in_bounds /\
                        (h.buffer_idx + buffer_read_len <= Len(h.read_buffer)),
                    !.out = [i \in 1..Len(st.out) |->
                               IF i > st.buffer_offset /\ i <= st.buffer_offset + buffer_read_len
                               THEN IF h.buffer_idx + (i - st.buffer_offset) <= Len(h.read_buffer)
                                    THEN h.read_buffer[h.buffer_idx + (i - st.buffer_offset)]
                                    ELSE 255
                               ELSE st.out[i]],
                    !.buffer_offset = Add(st.buffer_offset, buffer_read_len),
                    !.to_read = Sub(st.to_read, buffer_read_len),
                    !.h = [h EXCEPT
                             !.buffer_idx = Add(h.buffer_idx, buffer_read_len),
                             !.buffer_available = Sub(h.buffer_available, buffer_read_len),
                             !.file_offset = Add(h.file_offset, buffer_read_len)]]
            ELSE st
          h1 == st1.h
      IN
      IF st1.to_read > 0 /\ h1.buffer_available = 0
      THEN
        LET new_buffer_available == NewBufferAvailable(h1)
        IN
        IF BypassBuffer(st1.to_read, new_buffer_available)
        THEN \* lines 278-283: bypass the buffer
          LET r == ReadRange(st1.out, st1.buffer_offset,
                             BypassOffset(location, st1.buffer_offset), st1.to_read, ok)
              issued == Append(st1.fetches,
                               Fetch("direct", BypassOffset(location, st1.buffer_offset),
                                     st1.to_read))
          IN
          IF r.threw
          THEN [st1 EXCEPT !.fetches = issued, !.threw = TRUE]
          ELSE [st1 EXCEPT
                  !.fetches = issued,
                  !.out = r.data,
                  !.stop = TRUE,
                  !.h = [h1 EXCEPT
                           !.buffer_available = 0,
                           !.buffer_idx = 0,
                           !.file_offset = Add(h1.file_offset, st1.to_read)]]
        ELSE \* lines 284-290: refill the buffer
          LET r == ReadRange(h1.read_buffer, 0, h1.file_offset, new_buffer_available, ok)
              issued == Append(st1.fetches,
                               Fetch("refill", h1.file_offset, new_buffer_available))
          IN
          IF r.threw
          THEN [st1 EXCEPT !.fetches = issued, !.threw = TRUE]
          ELSE ReadLoop([st1 EXCEPT
                           !.fetches = issued,
                           !.h = [h1 EXCEPT
                                    !.read_buffer = r.data,
                                    !.buffer_available = new_buffer_available,
                                    !.buffer_idx = 0,
                                    !.buffer_start = h1.file_offset,
                                    !.buffer_end = Add(h1.file_offset, new_buffer_available)]],
                        location, ok)
      ELSE ReadLoop(st1, location, ok)

\* The caller's buffer before the call: nr_bytes bytes not yet written.
CallerBuffer(nr_bytes) == [i \in 1..nr_bytes |-> 0]

(***************************************************************************)
(* Read(handle, buffer, nr_bytes, location), lines 235-293.  The result    *)
(* is the loop state at return (or at the throw).                          *)
(***************************************************************************)
\* mutant: the flag is ignored
DirectIO_Ignored(h, to_read) == FALSE

\* line 242: the handle is a direct-I/O one and there is something to read
DirectIO(h, to_read) == "DIRECT_IO" \in h.flags /\ to_read > 0

ReadAt(h, nr_bytes, location, ok) ==
    LET to_read == nr_bytes
        st0 == [h |-> h, to_read |-> to_read, buffer_offset |-> 0,
                out |-> CallerBuffer(nr_bytes), fetches |-> <<>>,
                threw |-> FALSE, stop |-> FALSE, iterations |-> 0,
                assert_ok |-> TRUE, in_bounds |-> TRUE]
    IN
    IF DirectIO(h, to_read)
    THEN \* lines 242-248
      LET r == ReadRange(st0.out, 0, location, to_read, ok)
          issued == <<Fetch("direct", location, to_read)>>
      IN
      IF r.threw
      THEN [st0 EXCEPT !.fetches = issued, !.threw = TRUE]
      ELSE [st0 EXCEPT
              !.fetches = issued,
              !.out = r.data,
              !.to_read = 0,
              !.h = [h EXCEPT
                       !.buffer_available = 0,
                       !.buffer_idx = 0,
                       !.file_offset = Add(location, nr_bytes)]]
    ELSE
      LET hw == IF InWindow(h, location)
                THEN \* lines 251-253
                     [h EXCEPT
                        !.file_offset = location,
                        !.buffer_idx = Sub(location, h.buffer_start),
                        !.buffer_available =
                            Sub(Sub(h.buffer_end, h.buffer_start), Sub(location, h.buffer_start))]
                ELSE \* lines 256-258
                     [h EXCEPT
                        !.buffer_available = 0,
                        !.buffer_idx = 0,
                        !.file_offset = location]
      IN ReadLoop([st0 EXCEPT !.h = hw], location, ok)

\* What a call leaves for the caller to observe.
Outcome(op, nr_bytes, location, ret, st) ==
    [op |-> op, nr_bytes |-> nr_bytes, location |-> location, ret |-> ret,
     out |-> st.out, fetches |-> st.fetches, threw |-> st.threw,
     iterations |-> st.iterations,
     assert_ok |-> st.assert_ok, in_bounds |-> st.in_bounds]

NoOutcome ==
    [op |-> "open", nr_bytes |-> 0, location |-> 0, ret |-> 0,
     out |-> <<>>, fetches |-> <<>>, threw |-> FALSE,
     iterations |-> 0,
     assert_ok |-> TRUE, in_bounds |-> TRUE]

(***************************************************************************)
(* Operations on the handle.                                               *)
(***************************************************************************)
\* mutant: seek also drops the buffered bytes
Seek_ResetsBuffer(location) ==
    /\ hfh' = [hfh EXCEPT !.file_offset = location, !.buffer_available = 0, !.buffer_idx = 0]
    /\ rd' = [NoOutcome EXCEPT !.op = "seek", !.location = location]
    /\ UNCHANGED <<blob, sessionVars>>

\* Seek(handle, location), lines 159-162
Seek(location) ==
    /\ hfh' = [hfh EXCEPT !.file_offset = location]
    /\ rd' = [NoOutcome EXCEPT !.op = "seek", !.location = location]
    /\ UNCHANGED <<blob, sessionVars>>

\* Read(handle, buffer, nr_bytes, location), lines 235-293
ReadOffset(nr_bytes, location, ok) ==
    LET st == ReadAt(hfh, nr_bytes, location, ok) IN
    /\ hfh' = st.h
    /\ rd' = Outcome("read_at", nr_bytes, location, nr_bytes, st)
    /\ UNCHANGED <<blob, sessionVars>>

\* Read(handle, buffer, nr_bytes), lines 168-174
ReadImplicit(nr_bytes, ok) ==
    LET clamped == ClampToRemaining(hfh, nr_bytes)
        st == ReadAt(hfh, clamped, hfh.file_offset, ok)
    IN
    /\ hfh' = st.h
    /\ rd' = Outcome("read", nr_bytes, hfh.file_offset, clamped, st)
    /\ UNCHANGED <<blob, sessionVars>>

(***************************************************************************)
(* Strings are sequences of one-character strings; positions are 0-based   *)
(* as in std::string, and NPos is std::string::npos.                       *)
(***************************************************************************)
NPos == IdxMod - 1

\* s has pat at position pos
HasAt(s, pat, pos) ==
    /\ pos + Len(pat) <= Len(s)
    /\ \A i \in 1..Len(pat) : s[pos + i] = pat[i]

\* s.find(pat, from)
Find(s, pat, from) ==
    LET hits == {p \in from..Len(s) : HasAt(s, pat, p)}
    IN IF hits = {} THEN NPos ELSE CHOOSE p \in hits : \A q \in hits : p <= q

\* s.rfind(pat, 0): 0 when s starts with pat, npos otherwise
RFind0(s, pat) == IF HasAt(s, pat, 0) THEN 0 ELSE NPos

\* s.find_first_of(chars)
FindFirstOf(s, chars) ==
    LET hits == {p \in 0..(Len(s) - 1) : s[p + 1] \in chars}
    IN IF hits = {} THEN NPos ELSE CHOOSE p \in hits : \A q \in hits : p <= q

\* s.substr(pos, count), for pos <= s.size()
Substr(s, pos, count) ==
    LET n == MinValue(count, Len(s) - pos)
    IN [i \in 1..n |-> s[pos + i]]

\* s.substr(pos)
SubstrFrom(s, pos) == Substr(s, pos, Len(s) - pos)

AzureScheme == <<"a", "z", "u", "r", "e", ":", "/", "/">>
AzScheme == <<"a", "z", ":", "/", "/">>

(***************************************************************************)
(* AzureStorageFileSystem::ParseUrl, lines 329-374.  The result is the     *)
(* AzureParsedUrl, or the IOException the function throws.                 *)
(***************************************************************************)
ParseError(what) == [ok |-> FALSE, error |-> what]

ParsedUrl(container, storage_account_name, endpoint, prefix, path) ==
    [ok |-> TRUE, container |-> container, storage_account_name |-> storage_account_name,
     endpoint |-> endpoint, prefix |-> prefix, path |-> path]

ParseUrl(url) ==
    IF (RFind0(url, AzureScheme) * RFind0(url, AzScheme)) % IdxMod # 0
    THEN ParseError("IOException: URL needs to start with azure:// or az://")
    ELSE
      LET prefix_end_pos == Find(url, <<"/", "/">>, 0) + 2
          dot_pos == Find(url, <<".">>, prefix_end_pos)
          slash_pos == Find(url, <<"/">>, prefix_end_pos)
      IN
      IF slash_pos = NPos
      THEN ParseError("IOException: invalid url format")
      ELSE IF dot_pos # NPos /\ dot_pos < slash_pos
      THEN \* (azure|az)://<storage account>.<endpoint>/<container>/[<path>]
        LET container_slash_pos == Find(url, <<"/">>, dot_pos)
            path_slash_pos == Find(url, <<"/">>, container_slash_pos + 1)
        IN
        IF container_slash_pos = NPos
        THEN ParseError("IOException: invalid url format")
        ELSE IF path_slash_pos = NPos
        THEN ParseError("IOException: invalid url format")
        ELSE ParsedUrl(Substr(url, container_slash_pos + 1,
                              path_slash_pos - container_slash_pos - 1),
                       Substr(url, prefix_end_pos, dot_pos - prefix_end_pos),
                       Substr(url, dot_pos + 1, container_slash_pos - dot_pos - 1),
                       Substr(url, 0, prefix_end_pos),
                       SubstrFrom(url, path_slash_pos + 1))
      ELSE \* (azure|az)://<container>/[<path>]
        LET container == Substr(url, prefix_end_pos, slash_pos - prefix_end_pos)
        IN
        IF container = <<>>
        THEN ParseError("IOException: invalid url format")
        ELSE ParsedUrl(container, <<>>, <<>>, Substr(url, 0, prefix_end_pos),
                       SubstrFrom(url, slash_pos + 1))

(***************************************************************************)
(* Credential resolution (azure_storage_account_client.cpp,                *)
(* src/unnamed/part_000).  Setting values, secret values, account names    *)
(* and URLs are strings (sequences of characters).                         *)
(***************************************************************************)
DEFAULT_ENDPOINT == <<"b", "l", "o", "b", ".", "c", "o", "r", "e", ".", "w", "i", "n", "d", "o", "w", "s", ".", "n", "e", "t">>

AccountNameKey == <<"A", "c", "c", "o", "u", "n", "t", "N", "a", "m", "e", "=">>
Https == <<"h", "t", "t", "p", "s", ":", "/", "/">>

\* StringUtil::Split(str, char): the pieces std::getline yields
RECURSIVE SplitChar(_, _)
SplitChar(str, delimiter) ==
    IF str = <<>> THEN <<>>
    ELSE LET pos == Find(str, <<delimiter>>, 0)
         IN IF pos = NPos THEN <<str>>
            ELSE <<Substr(str, 0, pos)>> \o SplitChar(SubstrFrom(str, pos + 1), delimiter)

Thrown(what) == [threw |-> TRUE, error |-> what]

\* ConnectionStringMatchStorageAccountName, lines 42-54
ConnectionStringMatchStorageAccountName(connection_string, provided_storage_account) ==
    IF provided_storage_account = <<>>
    THEN [threw |-> FALSE, match |-> TRUE]
    ELSE LET storage_account_name_pos == Find(connection_string, AccountNameKey, 0)
         IN IF storage_account_name_pos = NPos
            THEN Thrown("InvalidInputException: A invalid connection string has been provided.")
            ELSE [threw |-> FALSE,
                  match |-> IF storage_account_name_pos + 12 <= Len(connection_string)
                            THEN Substr(connection_string, storage_account_name_pos + 12,
                                        Len(provided_storage_account))
                                    = provided_storage_account
                            ELSE FALSE]

\* a secret's value for a key: TryGetValue(key), <<>> standing for a null Value
SecretValue(secret, key) == IF key \in DOMAIN secret.map THEN secret.map[key] ELSE <<>>
SecretHas(secret, key) == key \in DOMAIN secret.map

\* KVSEndpoint, lines 56-66
KVSEndpoint(secret, provided_endpoint) ==
    IF provided_endpoint = <<>>
    THEN IF ~SecretHas(secret, "endpoint") THEN DEFAULT_ENDPOINT
         ELSE SecretValue(secret, "endpoint")
    ELSE provided_endpoint

\* AccountUrl, lines 75-79, with KVSStorageAccount, lines 68-73: the account
\* comes from the URL, else from the secret, where it must be present.
AccountUrl(secret, provided_storage_account, provided_endpoint) ==
    IF provided_storage_account = <<>> /\ ~SecretHas(secret, "account_name")
    THEN Thrown("InvalidInputException: Failed to fetch key 'account_name' from secret")
    ELSE [threw |-> FALSE,
          url |-> Https
                    \o (IF provided_storage_account = <<>>
                        THEN SecretValue(secret, "account_name")
                        ELSE provided_storage_account)
                    \o <<".">> \o KVSEndpoint(secret, provided_endpoint)]

\* the BlobServiceClient a resolution ends with
Client(source, target, credential) ==
    [threw |-> FALSE, source |-> source, target |-> target, credential |-> credential]

ChainItems == {<<"c", "l", "i">>, <<"m", "a", "n", "a", "g", "e", "d", "_", "i", "d", "e", "n", "t", "i", "t", "y">>, <<"e", "n", "v">>, <<"d", "e", "f", "a", "u", "l", "t">>}

\* CreateChainedTokenCredential, lines 118-140
CreateChainedTokenCredential(chain) ==
    LET chain_list == SplitChar(chain, ";")
    IN IF \E i \in 1..Len(chain_list) : chain_list[i] \notin ChainItems
       THEN Thrown("InvalidInputException: Unknown credential provider found")
       ELSE [threw |-> FALSE, credential |-> chain_list]

\* CreateClientCredential, lines 142-157
CreateClientCredential(client_secret, client_certificate_path) ==
    IF client_secret # <<>>
    THEN [threw |-> FALSE, credential |-> <<"client_secret">>]
    ELSE IF client_certificate_path # <<>>
    THEN [threw |-> FALSE, credential |-> <<"client_certificate">>]
    ELSE Thrown("InvalidInputException: Failed to fetch key 'client_secret' or 'client_certificate_path'")

\* GetTransportOptions(type, proxy, user, password), lines 208-232: the
\* proxy values are handed to the transport as they are; the type decides
\* whether the call throws.
GetTransportOptions(transport_option_type) ==
    IF transport_option_type \in {"default", "curl"}
    THEN [threw |-> FALSE]
    ELSE Thrown("InvalidInputException: transport_option_type cannot take value")

\* GetStorageAccountClientFromConfigProvider, lines 265-289
FromConfigProvider(settings, secret, provided_storage_account, provided_endpoint) ==
    IF GetTransportOptions(settings.azure_transport_option_type).threw
    THEN GetTransportOptions(settings.azure_transport_option_type)
    ELSE IF SecretHas(secret, "connection_string")
    THEN LET connection_string == SecretValue(secret, "connection_string")
             m == ConnectionStringMatchStorageAccountName(connection_string,
                                                          provided_storage_account)
         IN IF m.threw THEN m
            ELSE IF ~m.match
            THEN Thrown("InvalidInputException: The provided connection string does not match the storage account")
            ELSE Client("secret:config:connection_string", connection_string, <<>>)
    ELSE LET account_url == AccountUrl(secret, provided_storage_account, provided_endpoint)
         IN IF account_url.threw THEN account_url
            ELSE Client("secret:config:anonymous", account_url.url, <<>>)

\* GetStorageAccountClientFromCredentialChainProvider, lines 291-310
FromCredentialChainProvider(settings, secret, provided_storage_account, provided_endpoint) ==
    IF GetTransportOptions(settings.azure_transport_option_type).threw
    THEN GetTransportOptions(settings.azure_transport_option_type)
    ELSE LET chain == IF SecretHas(secret, "chain") THEN SecretValue(secret, "chain")
                      ELSE <<"d", "e", "f", "a", "u", "l", "t">>
             credential == CreateChainedTokenCredential(chain)
             account_url == AccountUrl(secret, provided_storage_account, provided_endpoint)
         IN IF credential.threw THEN credential
            ELSE IF account_url.threw THEN account_url
            ELSE Client("secret:credential_chain", account_url.url, credential.credential)

\* GetStorageAccountClientFromServicePrincipalProvider, lines 312-334
FromServicePrincipalProvider(settings, secret, provided_storage_account, provided_endpoint) ==
    IF GetTransportOptions(settings.azure_transport_option_type).threw
    THEN GetTransportOptions(settings.azure_transport_option_type)
    ELSE IF ~SecretHas(secret, "tenant_id")
    THEN Thrown("InvalidInputException: Failed to fetch key 'tenant_id' from secret")
    ELSE IF ~SecretHas(secret, "client_id")
    THEN Thrown("InvalidInputException: Failed to fetch key 'client_id' from secret")
    ELSE LET token_credential ==
                 CreateClientCredential(SecretValue(secret, "client_secret"),
                                        SecretValue(secret, "client_certificate_path"))
             account_url == AccountUrl(secret, provided_storage_account, provided_endpoint)
         IN IF token_credential.threw THEN token_credential
            ELSE IF account_url.threw THEN account_url
            ELSE Client("secret:service_principal", account_url.url,
                        token_credential.credential)

\* GetStorageAccountClient(opener, secret, account, endpoint), lines 336-353
GetStorageAccountClientFromSecret(settings, secret, provided_storage_account, provided_endpoint) ==
    IF secret.provider = "config"
    THEN FromConfigProvider(settings, secret, provided_storage_account, provided_endpoint)
    ELSE IF secret.provider = "credential_chain"
    THEN FromCredentialChainProvider(settings, secret, provided_storage_account,
                                     provided_endpoint)
    ELSE IF secret.provider = "service_principal"
    THEN FromServicePrincipalProvider(settings, secret, provided_storage_account,
                                      provided_endpoint)
    ELSE Thrown("InvalidInputException: Unsupported provider type for azure")

\* GetStorageAccountClient(opener, account, endpoint), lines 366-409
GetStorageAccountClientFromSettings(settings, provided_storage_account, provided_endpoint) ==
    LET connection_string == settings.azure_storage_connection_string
        m == ConnectionStringMatchStorageAccountName(connection_string,
                                                     provided_storage_account)
        endpoint == IF provided_endpoint = <<>>
                    THEN IF settings.azure_endpoint = <<>> THEN DEFAULT_ENDPOINT
                         ELSE settings.azure_endpoint
                    ELSE provided_endpoint
        azure_account_name == IF provided_storage_account = <<>>
                              THEN settings.azure_account_name
                              ELSE provided_storage_account
        account_url == Https \o azure_account_name \o <<".">> \o endpoint
        credential_chain == settings.azure_credential_chain
        credential == CreateChainedTokenCredential(credential_chain)
    IN
    IF GetTransportOptions(settings.azure_transport_option_type).threw
    THEN GetTransportOptions(settings.azure_transport_option_type)
    ELSE IF connection_string # <<>> /\ m.threw THEN m
    ELSE IF connection_string # <<>> /\ m.match
    THEN Client("settings:connection_string", connection_string, <<>>)
    ELSE IF azure_account_name = <<>>
    THEN Thrown("InvalidInputException: No valid Azure credentials found!")
    ELSE IF credential_chain # <<>>
    THEN IF credential.threw THEN credential
         ELSE Client("settings:credential_chain", account_url, credential.credential)
    ELSE Client("settings:anonymous", account_url, <<>>)

\* no secret registered for the path
NoSecret == [provider |-> "none", map |-> <<>>]

\* ConnectToStorageAccount, lines 411-429: secret is what LookupSecret finds
\* for the path and the type "azure".
ConnectToStorageAccount(settings, secret, parsed_url) ==
    IF secret # NoSecret
    THEN GetStorageAccountClientFromSecret(settings, secret,
                                           parsed_url.storage_account_name,
                                           parsed_url.endpoint)
    ELSE GetStorageAccountClientFromSettings(settings, parsed_url.storage_account_name,
                                             parsed_url.endpoint)

(***************************************************************************)
(* The session: its settings, the secret registered for azure paths, the   *)
(* registered_state map of the client context, and every AzureContextState *)
(* built so far (an object is named by its position in contexts).          *)
(***************************************************************************)
\* ParseAzureReadOptions, lines 24-43
ParseAzureReadOptions(s) ==
    [transfer_concurrency |-> s.azure_read_transfer_concurrency,
     transfer_chunk_size  |-> s.azure_read_transfer_chunk_size,
     buffer_size          |-> s.azure_read_buffer_size]

\* AzureContextState::AzureContextState, lines 72-75
AzureContextState(client, azure_read_options) ==
    [read_options |-> azure_read_options, service_client |-> client, is_valid |-> TRUE]

\* AzureContextState::IsValid, lines 82-84
IsValid(context) == context.is_valid

\* mutant: the end of a query flips the flag instead of clearing it
QueryEnd_Toggles(context) == [context EXCEPT !.is_valid = ~context.is_valid]

\* AzureContextState::QueryEnd, lines 86-88
QueryEnd(context) == [context EXCEPT !.is_valid = FALSE]

\* CreateStorageContext, lines 413-418: the new object, or what
\* ConnectToStorageAccount threw
CreateStorageContext(s, sec, parsed_url) ==
    LET Make(client) ==
            IF client.threw THEN client
            ELSE [threw |-> FALSE,
                  context |-> AzureContextState(client, ParseAzureReadOptions(s))]
    IN Make(ConnectToStorageAccount(s, sec, parsed_url))

\* mutant: caching cannot be switched off
CachingEnabled_Always(s) == TRUE

\* mutant: the setting is taken to be off
CachingEnabled_Off(s) == FALSE

\* lines 379-383: the azure_context_caching setting
CachingEnabled(s) == s.azure_context_caching

\* mutant: the cached entry is used without asking IsValid
CacheHit_IgnoresValidity(rs, ctxs, key) == key \in DOMAIN rs

\* mutant: the map is never consulted
CacheHit_Never(rs, ctxs, key) == FALSE

\* mutant: only the entry of the empty account name is ever reused
CacheHit_OnlyEmptyKey(rs, ctxs, key) == key = <<>> /\ key \in DOMAIN rs /\ IsValid(ctxs[rs[key]])

\* lines 390-402: the key is registered and its context is still valid
CacheHit(rs, ctxs, key) == key \in DOMAIN rs /\ IsValid(ctxs[rs[key]])

\* mutant: an entry that exists is kept
Register_KeepsExisting(rs, key, id) ==
    [k \in (DOMAIN rs) \cup {key} |-> IF k \in DOMAIN rs THEN rs[k] ELSE id]

\* registered_state.insert / operator[], lines 393 and 401
Register(rs, key, id) == [k \in (DOMAIN rs) \cup {key} |-> IF k = key THEN id ELSE rs[k]]

(***************************************************************************)
(* GetOrCreateStorageContext, lines 376-411.  The result names the context *)
(* returned (ctx, 0 when the call threw), says whether                     *)
(* CreateStorageContext ran (built), and gives the map and the objects     *)
(* after the call.                                                         *)
(***************************************************************************)
GetOrCreateStorageContext(s, sec, rs, ctxs, parsed_url) ==
    LET Returned(ctx, built, new_rs, new_ctxs) ==
            [threw |-> FALSE, error |-> "none", ctx |-> ctx, built |-> built,
             registered_state |-> new_rs, contexts |-> new_ctxs]
        Failed(error) ==
            [threw |-> TRUE, error |-> error, ctx |-> 0, built |-> TRUE,
             registered_state |-> rs, contexts |-> ctxs]
        Lookup(key, new_id, fresh) ==
            IF CachingEnabled(s)
            THEN IF CacheHit(rs, ctxs, key)
                 THEN Returned(rs[key], FALSE, rs, ctxs)
                 ELSE IF fresh.threw THEN Failed(fresh.error)
                 ELSE Returned(new_id, TRUE, Register(rs, key, new_id),
                               Append(ctxs, fresh.context))
            ELSE IF fresh.threw THEN Failed(fresh.error)
                 ELSE Returned(new_id, TRUE, rs, Append(ctxs, fresh.context))
    IN Lookup(parsed_url.storage_account_name, Len(ctxs) + 1,
              CreateStorageContext(s, sec, parsed_url))

(***************************************************************************)
(* Globbing: StringUtil::Split and LikeFun::Glob of DuckDB, and Match,     *)
(* lines 46-69.                                                            *)
(***************************************************************************)
\* StringUtil::Split(input, split): the non-empty pieces between the
\* occurrences of split
RECURSIVE SplitPieces(_, _, _)
SplitPieces(input, split, last) ==
    IF last > Len(input) THEN <<>>
    ELSE LET Piece(next) ==
                 (IF next = last THEN <<>> ELSE <<Substr(input, last, next - last)>>)
                     \o SplitPieces(input, split, next + Len(split))
             Next(found) == Piece(IF found = NPos THEN Len(input) ELSE found)
         IN Next(Find(input, split, last))

\* ... and the input itself when there is no such piece
Split(input, split) ==
    LET Pieces(splits) == IF splits = <<>> THEN <<input>> ELSE splits
    IN Pieces(SplitPieces(input, split, 0))

\* the characters of paths and patterns in the order of their codes
Alphabet ==
    <<"!", "*", "-", ".", "/", ":", "?", "[", "\\", "]",
      "a", "c", "d", "e", "f", "p", "q", "r", "u", "z">>

Ord(c) == CHOOSE i \in 1..Len(Alphabet) : Alphabet[i] = c

\* the position after the run of asterisks that starts at pidx
SkipStars(pattern, pidx) ==
    CHOOSE n \in pidx..Len(pattern) :
        /\ n = Len(pattern) \/ pattern[n + 1] # "*"
        /\ \A m \in pidx..(n - 1) : pattern[m + 1] = "*"

\* LikeFun::Glob, the loop of parse_bracket: s is the character to match,
\* the result says whether the closing bracket was found, whether s matched
\* and where the pattern goes on
RECURSIVE ParseBracket(_, _, _, _, _, _)
ParseBracket(pattern, s, pidx, start_pos, invert, found_match) ==
    LET plen == Len(pattern)
        Open == [closed |-> FALSE, found_match |-> found_match, pidx |-> pidx]
        Found(matches) == IF found_match = invert /\ matches THEN ~invert ELSE found_match
    IN
    IF pidx >= plen THEN Open
    ELSE IF pattern[pidx + 1] = "]" /\ pidx > start_pos
    THEN [closed |-> TRUE, found_match |-> found_match, pidx |-> pidx + 1]
    ELSE IF pidx + 1 = plen THEN Open
    ELSE IF pattern[pidx + 2] = "-"
    THEN IF pidx + 2 = plen THEN Open
         ELSE ParseBracket(pattern, s, pidx + 3, start_pos, invert,
                           Found(/\ Ord(s) >= Ord(pattern[pidx + 1])
                                 /\ Ord(s) <= Ord(pattern[pidx + 3])))
    ELSE ParseBracket(pattern, s, pidx + 1, start_pos, invert,
                      Found(pattern[pidx + 1] = s))

\* LikeFun::Glob(string, slen, pattern, plen) from the positions sidx, pidx
RECURSIVE GlobFrom(_, _, _, _)
GlobFrom(string, pattern, sidx, pidx) ==
    LET slen == Len(string)
        plen == Len(pattern)
        Bracket(start, invert) ==
            LET Closed(r) == r.closed /\ r.found_match
                                      /\ GlobFrom(string, pattern, sidx + 1, r.pidx)
            IN Closed(ParseBracket(pattern, string[sidx + 1], start, start, invert, invert))
        Asterisk(next) ==
            \/ next = plen
            \/ \E k \in sidx..(slen - 1) : GlobFrom(string, pattern, k, next)
    IN
    IF sidx < slen /\ pidx < plen
    THEN CASE pattern[pidx + 1] = "*" -> Asterisk(SkipStars(pattern, pidx + 1))
           [] pattern[pidx + 1] = "?" -> GlobFrom(string, pattern, sidx + 1, pidx + 1)
           [] pattern[pidx + 1] = "[" ->
                  /\ pidx + 1 # plen
                  /\ IF pattern[pidx + 2] = "!"
                     THEN Bracket(pidx + 2, TRUE)
                     ELSE Bracket(pidx + 1, FALSE)
           [] pattern[pidx + 1] = "\\" ->
                  /\ pidx + 1 # plen
                  /\ string[sidx + 1] = pattern[pidx + 2]
                  /\ GlobFrom(string, pattern, sidx + 1, pidx + 2)
           [] OTHER ->
                  /\ string[sidx + 1] = pattern[pidx + 1]
                  /\ GlobFrom(string, pattern, sidx + 1, pidx + 1)
    ELSE SkipStars(pattern, pidx) = plen /\ sidx = slen

LikeGlob(string, pattern) == GlobFrom(string, pattern, 0, 0)

\* Match, lines 46-69, on the segments of a key and of a pattern
RECURSIVE Match(_, _)
Match(key, pattern) ==
    IF key # <<>> /\ pattern # <<>>
    THEN IF Head(pattern) = <<"*", "*">>
         THEN \/ Tail(pattern) = <<>>
              \/ \E k \in 1..Len(key) : Match(SubSeq(key, k, Len(key)), Tail(pattern))
         ELSE /\ LikeGlob(Head(key), Head(pattern))
              /\ Match(Tail(key), Tail(pattern))
    ELSE key = <<>> /\ pattern = <<>>

(***************************************************************************)
(* The remote side: one container, its blobs in listing order, and the     *)
(* paged listing of the blobs under a prefix.                              *)
(***************************************************************************)
BlobOfSize(n) == [i \in 1..n |-> BlobByte(i - 1)]

ContainerName == <<"c">>

Listing ==
    <<[name |-> <<"d", "/", "p">>, content |-> BlobOfSize(1)],
      [name |-> <<"p">>, content |-> BlobOfSize(2)],
      [name |-> <<"q">>, content |-> BlobOfSize(0)]>>

\* the blob a BlobClient for (container, path) refers to: its place in the
\* listing, 0 when the service holds no such blob
BlobAt(container, path) ==
    IF container = ContainerName /\ \E i \in 1..Len(Listing) : Listing[i].name = path
    THEN CHOOSE i \in 1..Len(Listing) : Listing[i].name = path
    ELSE 0

\* blobs the service returns in one page
PageSize == 2

\* ListBlobs(options) of the container client: the page that follows the
\* continuation token (0: none yet, else the number of blobs already
\* returned) and the token of the page after it (0: none)
ListBlobs(prefix, token) ==
    LET Under(b) == HasAt(b.name, prefix, 0)
        Page(under) ==
            [Blobs |-> SubSeq(under, token + 1, MinValue(token + PageSize, Len(under))),
             NextPageToken |-> IF token + PageSize < Len(under)
                               THEN token + PageSize ELSE 0]
    IN Page(SelectSeq(Listing, Under))

(***************************************************************************)
(* Calls on the file system within a session.                              *)
(***************************************************************************)
\* the settings of a session that has set none (azure_filesystem.hpp 13-17
\* for the read options, scaled to the model's sizes)
DefaultSettings ==
    [azure_context_caching           |-> TRUE,
     azure_read_transfer_concurrency |-> 5,
     azure_read_transfer_chunk_size  |-> MaxBuf,
     azure_read_buffer_size          |-> MaxBuf,
     azure_storage_connection_string |-> <<>>,
     azure_account_name              |-> <<>>,
     azure_credential_chain          |-> <<>>,
     azure_endpoint                  |-> <<>>,
     azure_transport_option_type     |-> "default"]

\* what a call leaves for its caller to observe: the exception it threw
\* ("none" when it returned); whether it reached GetOrCreateStorageContext
\* (lookup) and, when it did, its path and the account name of the path
\* (key); the context it was handed
\* (0 when none) and whether CreateStorageContext ran (built); whether a
\* handle was built; for glob the result and the continuation tokens of its
\* listing calls; for FileExists the value returned.
NoOp ==
    [op |-> "none", path |-> <<>>, error |-> "none", lookup |-> FALSE, key |-> <<>>,
     ctx |-> 0, built |-> FALSE, handle |-> FALSE, result |-> <<>>, tokens |-> <<>>,
     exists |-> FALSE]

\* no function called yet
NoCall == [op |-> "none"]

\* the threads of a query that open files
Openers == {1, 2}

\* a thread that is not inside GetOrCreateStorageContext
Idle == [pc |-> "idle", key |-> <<>>, result |-> 0, built |-> FALSE]

NoThreads == [t \in Openers |-> Idle]

\* the handle variable before any open
NoHandle == NewHandle({}, 0, ParseAzureReadOptions(DefaultSettings), 255)

\* the call threw before it reached GetOrCreateStorageContext
Threw(what, error) ==
    /\ call' = [NoOp EXCEPT !.op = what, !.error = error]
    /\ UNCHANGED <<readVars, session_settings, session_secret, fn, threads, registered_state, contexts,
                   handed>>

\* the call as GetOrCreateStorageContext leaves it
Called(what, path, parsed_url, got) ==
    [NoOp EXCEPT !.op = what, !.path = path, !.lookup = TRUE,
                 !.key = parsed_url.storage_account_name,
                 !.error = got.error, !.ctx = got.ctx, !.built = got.built]

\* the session after GetOrCreateStorageContext returned or threw
Looked(parsed_url, got) ==
    /\ registered_state' = got.registered_state
    /\ contexts' = got.contexts
    /\ handed' = IF ~got.threw /\ session_settings.azure_context_caching
                 THEN [k \in (DOMAIN handed) \cup {parsed_url.storage_account_name} |->
                          IF k = parsed_url.storage_account_name THEN got.ctx
                          ELSE handed[k]]
                 ELSE handed
    /\ UNCHANGED <<session_settings, session_secret, fn, threads>>

\* mutant: the write flag is let through
WriteRequested_Never(flags) == FALSE

\* line 137: the flags ask for writing
WriteRequested(flags) == "WRITE" \in flags

\* OpenFile, lines 133-143, with CreateHandle, lines 115-131, and the
\* handle's constructor, lines 91-112, up to the exception thrown or the
\* handle built.  has_opener: the caller passed a FileOpener; meta_ok: the
\* service answers GetProperties.  The result says whether
\* GetOrCreateStorageContext was reached (lookup) and with what result
\* (got), which exception ended the call ("none": a handle was built) and
\* the length the handle took from the blob's properties.
TryOpen(path, flags, has_opener, meta_ok) ==
    LET Early(error) == [lookup |-> FALSE, error |-> error, length |-> 0, at |-> 0]
        Handle(parsed_url, got, at) ==
            [lookup |-> TRUE, parsed_url |-> parsed_url, got |-> got, at |-> at,
             error |-> IF got.threw THEN got.error
                       ELSE IF ~meta_ok \/ at = 0 THEN "IOException"
                       ELSE "none",
             length |-> IF at = 0 THEN 0 ELSE Len(Listing[at].content)]
        CreateHandle(parsed_url) ==
            IF ~parsed_url.ok
            THEN Early(parsed_url.error)
            ELSE Handle(parsed_url,
                        GetOrCreateStorageContext(session_settings, session_secret,
                                                  registered_state, contexts, parsed_url),
                        BlobAt(parsed_url.container, parsed_url.path))
    IN
    IF WriteRequested(flags)
    THEN Early("NotImplementedException")
    ELSE IF ~has_opener
    THEN Early("InternalException")
    ELSE CreateHandle(ParseUrl(path))

\* mutant: the handle takes the options of the header instead
HandleReadOptions_Default(context) == ParseAzureReadOptions(DefaultSettings)

\* CreateHandle, line 130: the options handed to the handle's constructor,
\* which copies them (line 95)
HandleReadOptions(context) == context.read_options

\* OpenFile as a call of the session: the handle it returns becomes hfh
OpenFile(path, flags, has_opener, meta_ok) ==
    LET Returned(o) ==
            IF ~o.lookup
            THEN Threw("open", o.error)
            ELSE /\ Looked(o.parsed_url, o.got)
                 /\ call' = [Called("open", path, o.parsed_url, o.got)
                               EXCEPT !.error = o.error, !.handle = (o.error = "none")]
                 /\ IF o.error # "none"
                    THEN UNCHANGED readVars
                    ELSE /\ \E junk \in JunkBytes :
                               hfh' = NewHandle(flags, o.length,
                                                HandleReadOptions(o.got.contexts[o.got.ctx]),
                                                junk)
                         /\ blob' = Listing[o.at].content
                         /\ rd' = NoOutcome
    IN Returned(TryOpen(path, flags, has_opener, meta_ok))

\* FileExists, lines 295-306: OpenFile(filename, FILE_FLAGS_READ) leaves
\* the opener at its default, nullptr (azure_filesystem.hpp 66-68); every
\* exception is caught, and the handle is dropped on return.
FileExists(filename, meta_ok) ==
    LET Caught(o) ==
            /\ call' = [NoOp EXCEPT !.op = "file_exists",
                                    !.exists = (o.error = "none" /\ o.length # 0)]
            /\ IF o.lookup
               THEN Looked(o.parsed_url, o.got)
               ELSE UNCHANGED <<session_settings, session_secret, fn, threads, registered_state,
                                contexts, handed>>
            /\ UNCHANGED readVars
    IN Caught(TryOpen(filename, {"READ"}, FALSE, meta_ok))

\* mutant: the continuation token of the response is not looked at
HasNextPage_Never(res) == FALSE

\* line 224: the response carries a continuation token
HasNextPage(res) == res.NextPageToken # 0

\* mutant: the loop ends at the failed listing call with what it has
Aborted_KeepsMatches(tokens, result) ==
    [threw |-> FALSE, tokens |-> tokens, result |-> result]

\* lines 203-207: the StorageException of a listing call leaves Glob as an
\* IOException, and with it the matches collected so far are dropped
Aborted(tokens, result) == [threw |-> TRUE, tokens |-> tokens, result |-> <<>>]

\* Glob, lines 198-229: the listing loop from the page after token on.
\* q holds what the loop does not change; fail_at is the listing call the
\* service answers with a StorageException (0: none).
RECURSIVE GlobPages(_, _, _, _)
GlobPages(q, token, tokens, result) ==
    LET IsMatch(key) == Match(Split(key.name, <<"/">>), q.pattern_splits)
        Url(key) == q.path_result_prefix \o <<"/">> \o key.name
        Urls(keys) == [i \in 1..Len(keys) |-> Url(keys[i])]
        Page(res) ==
            IF HasNextPage(res)
            THEN GlobPages(q, res.NextPageToken, Append(tokens, token),
                           result \o Urls(SelectSeq(res.Blobs, IsMatch)))
            ELSE [threw |-> FALSE, tokens |-> Append(tokens, token),
                  result |-> result \o Urls(SelectSeq(res.Blobs, IsMatch))]
    IN IF Len(tokens) + 1 = q.fail_at \/ q.container # ContainerName
       THEN Aborted(Append(tokens, token), result)
       ELSE Page(ListBlobs(q.prefix, token))

\* mutant: the separator counts as a wildcard
GlobWildcards_AlsoSeparator == {"*", "[", "\\", "/"}

\* the characters Glob takes for wildcards, line 185
GlobWildcards == {"*", "[", "\\"}

\* Glob, lines 176-232
Glob(path, has_opener, fail_at) ==
    LET PathResultPrefix(azure_url) ==
            IF azure_url.storage_account_name = <<>>
            THEN azure_url.prefix \o azure_url.container
            ELSE azure_url.prefix \o azure_url.storage_account_name \o <<".">>
                     \o azure_url.endpoint \o <<"/">> \o azure_url.container
        Listed(azure_url, got, pages) ==
            call' = [Called("glob", path, azure_url, got)
                       EXCEPT !.error = IF pages.threw THEN "IOException" ELSE "none",
                              !.result = pages.result, !.tokens = pages.tokens]
        Resolved(azure_url, got, first_wildcard_pos) ==
            /\ Looked(azure_url, got)
            /\ UNCHANGED readVars
            /\ IF got.threw
               THEN call' = Called("glob", path, azure_url, got)
               ELSE IF first_wildcard_pos = NPos
               THEN call' = [Called("glob", path, azure_url, got) EXCEPT !.result = <<path>>]
               ELSE Listed(azure_url, got,
                           GlobPages([container |-> azure_url.container,
                                      prefix |-> Substr(azure_url.path, 0, first_wildcard_pos),
                                      pattern_splits |-> Split(azure_url.path, <<"/">>),
                                      path_result_prefix |-> PathResultPrefix(azure_url),
                                      fail_at |-> fail_at],
                                     0, <<>>, <<>>))
        Parsed(azure_url) ==
            IF ~azure_url.ok
            THEN Threw("glob", azure_url.error)
            ELSE Resolved(azure_url,
                          GetOrCreateStorageContext(session_settings, session_secret,
                                                    registered_state, contexts, azure_url),
                          FindFirstOf(azure_url.path, GlobWildcards))
    IN
    IF ~has_opener
    THEN Threw("glob", "InternalException")
    ELSE Parsed(ParseUrl(path))

\* mutant: the end of a query drops what open handles have buffered and
\* what they know of their object
OpenHandleAtQueryEnd_Reset(h) ==
    [h EXCEPT !.length = 0, !.buffer_available = 0, !.buffer_start = 0, !.buffer_end = 0]

\* QueryEnd, lines 86-88, writes the context's flag only: an open handle
\* has its own BlobClient and its own copy of the read options
\* (azure_filesystem.hpp 57-61)
OpenHandleAtQueryEnd(h) == h

\* the end of a query: the client context calls QueryEnd on every state
\* registered in registered_state
SessionEnd ==
    /\ contexts' = [i \in 1..Len(contexts) |->
                      IF \E k \in DOMAIN registered_state : registered_state[k] = i
                      THEN QueryEnd(contexts[i])
                      ELSE contexts[i]]
    /\ call' = [NoOp EXCEPT !.op = "query_end"]
    /\ handed' = <<>>
    /\ hfh' = OpenHandleAtQueryEnd(hfh)
    /\ UNCHANGED <<blob, rd, session_settings, session_secret, fn, threads, registered_state>>

\* SET <name> = <value> between two calls
SetSetting(name, value) ==
    /\ session_settings[name] # value
    /\ session_settings' = [session_settings EXCEPT ![name] = value]
    /\ call' = [NoOp EXCEPT !.op = "set"]
    /\ UNCHANGED <<readVars, session_secret, fn, threads, registered_state, contexts, handed>>

\* the URLs the session opens
Paths ==
    {<<"a", "z", ":", "/", "/", "c", "/", "p">>,
     <<"a", "z", "u", "r", "e", ":", "/", "/", "a", ".", "e", "/", "c", "/", "p">>,
     <<"a", "z", ":", "/", "/", "c">>}

\* the paths the session globs
GlobPaths ==
    {<<"a", "z", ":", "/", "/", "a", ".", "e", "/", "c", "/", "*">>,
     <<"a", "z", ":", "/", "/", "c", "/", "p">>}

OpenFlagSets == {{"READ"}, {"READ", "WRITE"}}

\* the account names the session sets
AccountNames == {<<>>, <<"a">>}

\* at most MaxContexts context objects are built in a run
MaxContexts == 2

\* listing calls of one glob that may be the failing one
MaxPages == 2

CacheInit ==
    /\ blob = <<>>
    /\ hfh = NoHandle
    /\ rd = NoOutcome
    /\ session_settings = DefaultSettings
    /\ session_secret = NoSecret
    /\ registered_state = <<>>
    /\ contexts = <<>>
    /\ call = NoOp
    /\ handed = <<>>
    /\ fn = NoCall
    /\ threads = NoThreads

OpenStep ==
    /\ \E path \in Paths, flags \in OpenFlagSets, has_opener \in BOOLEAN, meta_ok \in BOOLEAN :
          OpenFile(path, flags, has_opener, meta_ok)
    /\ Len(contexts') <= MaxContexts

GlobStep ==
    /\ \E path \in GlobPaths, has_opener \in BOOLEAN, fail_at \in 0..MaxPages :
          Glob(path, has_opener, fail_at)
    /\ Len(contexts') <= MaxContexts

FileExistsStep ==
    /\ \E filename \in Paths, meta_ok \in BOOLEAN : FileExists(filename, meta_ok)
    /\ Len(contexts') <= MaxContexts

SessionEndStep == SessionEnd

SetCachingStep == \E b \in BOOLEAN : SetSetting("azure_context_caching", b)

SetAccountNameStep == \E a \in AccountNames : SetSetting("azure_account_name", a)

CacheNext ==
    \/ OpenStep
    \/ GlobStep
    \/ FileExistsStep
    \/ SessionEndStep
    \/ SetCachingStep
    \/ SetAccountNameStep

CacheSpec == CacheInit /\ [][CacheNext]_vars

\* Offsets a caller seeks to or reads at: every offset of the largest
\* object, its end, and one beyond it.
Locations == 0..(MaxLen + 1)

ReadInit ==
    /\ blob \in Blobs
    /\ \E flags \in FlagSets, bs \in 0..MaxBuf, junk \in JunkBytes :
          hfh = NewHandle(flags, Len(blob), ReadOptions(bs), junk)
    /\ rd = NoOutcome
    /\ session_settings = DefaultSettings
    /\ session_secret = NoSecret
    /\ registered_state = <<>>
    /\ contexts = <<>>
    /\ call = NoOp
    /\ handed = <<>>
    /\ fn = NoCall
    /\ threads = NoThreads

SeekStep == \E location \in Locations : Seek(location)

ReadOffsetStep ==
    \E nr_bytes \in 0..MaxRead, location \in Locations, ok \in BOOLEAN :
        ReadOffset(nr_bytes, location, ok)

\* The offset an implicit read starts at is one a seek can reach: this caps
\* the offset, which a run of reads beyond the end would advance for ever.
ReadImplicitStep ==
    /\ hfh.file_offset \in Locations
    /\ \E nr_bytes \in 0..MaxRead, ok \in BOOLEAN : ReadImplicit(nr_bytes, ok)

ReadNext == SeekStep \/ ReadOffsetStep \/ ReadImplicitStep

ReadSpec == ReadInit /\ [][ReadNext]_vars

(***************************************************************************)
(* Globs of a session whose account name is set or not.                    *)
(***************************************************************************)
\* the paths globbed: some without a wildcard, some with the wildcards of
\* LikeFun::Glob
GlobUrls ==
    {<<"a", "z", ":", "/", "/", "c", "/", "p">>,
     <<"a", "z", "u", "r", "e", ":", "/", "/", "a", ".", "e", "/", "c", "/", "d", "/", "p">>,
     <<"a", "z", ":", "/", "/", "c", "/", "*">>,
     <<"a", "z", "u", "r", "e", ":", "/", "/", "a", ".", "e", "/", "c", "/", "d", "/", "*">>,
     <<"a", "z", ":", "/", "/", "c", "/", "*", "*">>,
     <<"a", "z", ":", "/", "/", "c", "/", "?", "/", "*">>,
     <<"a", "z", ":", "/", "/", "c", "/", "[", "p", "q", "]">>,
     <<"a", "z", ":", "/", "/", "c", "/", "?">>}

GlobInit ==
    /\ blob = <<>>
    /\ hfh = NoHandle
    /\ rd = NoOutcome
    /\ \E a \in AccountNames, caching \in BOOLEAN :
          session_settings = [DefaultSettings EXCEPT !.azure_account_name = a,
                                                     !.azure_context_caching = caching]
    /\ session_secret = NoSecret
    /\ registered_state = <<>>
    /\ contexts = <<>>
    /\ call = NoOp
    /\ handed = <<>>
    /\ fn = NoCall
    /\ threads = NoThreads

GlobUrlStep ==
    /\ \E path \in GlobUrls, has_opener \in BOOLEAN, fail_at \in 0..MaxPages :
          Glob(path, has_opener, fail_at)
    /\ Len(contexts') <= MaxContexts

GlobSpec == GlobInit /\ [][GlobUrlStep]_vars

(***************************************************************************)
(* Calls of the functions that touch no state, on arguments of bounded     *)
(* size.                                                                   *)
(***************************************************************************)
\* the sequences over S of at most n elements
SeqsUpTo(S, n) == UNION {[1..k -> S] : k \in 0..n}

\* segments of keys, and segments of patterns
KeySegments == {<<"p">>, <<"q">>}
PatternSegments == KeySegments \cup {<<"*">>, <<"*", "*">>}

\* most segments of a key or of a pattern
MaxSegments == 2

\* the session stays as it is
SessionUnchanged ==
    UNCHANGED <<readVars, session_settings, session_secret, registered_state, contexts,
                call, handed, threads>>

\* Match(key, key_end, pattern, pattern_end), lines 45-69
MatchStep ==
    \E key \in SeqsUpTo(KeySegments, MaxSegments),
       pattern \in SeqsUpTo(PatternSegments, MaxSegments) :
        /\ fn' = [op |-> "match", key |-> key, pattern |-> pattern,
                  result |-> Match(key, pattern)]
        /\ SessionUnchanged

MatchSpec == CacheInit /\ [][MatchStep]_vars

(***************************************************************************)
(* Calls of ParseUrl.                                                      *)
(***************************************************************************)
\* most characters of a URL after its scheme
MaxUrlTail == 5

\* the characters of a URL after its scheme: a letter and the two
\* characters ParseUrl looks for
UrlChars == {"c", ".", "/"}

\* how the URLs begin: the two schemes ParseUrl takes, and another one
UrlSchemes == {AzScheme, AzureScheme, <<"s", "3", ":", "/", "/">>}

ParsedUrls == {scheme \o tail : scheme \in UrlSchemes, tail \in SeqsUpTo(UrlChars, MaxUrlTail)}

\* ParseUrl(url), lines 329-374, called once
ParseStep ==
    \E url \in ParsedUrls :
        /\ fn = NoCall
        /\ fn' = [op |-> "parse", url |-> url, parsed |-> ParseUrl(url)]
        /\ SessionUnchanged

ParseSpec == CacheInit /\ [][ParseStep]_vars

(***************************************************************************)
(* Calls of ConnectToStorageAccount.                                       *)
(***************************************************************************)
\* a connection string that names an account
ConnectionStringOf(account) == AccountNameKey \o account \o <<";">>

\* the azure_storage_connection_string setting: not set, naming "a", "b"
\* or "ab", or without an account name
ConnectionStrings ==
    {<<>>, ConnectionStringOf(<<"a">>), ConnectionStringOf(<<"b">>),
     ConnectionStringOf(<<"a", "b">>), <<"x">>}

\* the azure_credential_chain setting: not set, a provider, no provider
CredentialChains == {<<>>, <<"c", "l", "i">>, <<"x">>}

\* what LookupSecret finds for the path: nothing, or a secret of one of the
\* providers
Secrets ==
    {NoSecret,
     [provider |-> "config", map |-> [k \in {"connection_string"} |-> ConnectionStringOf(<<"b">>)]],
     [provider |-> "config", map |-> [k \in {"connection_string"} |-> ConnectionStringOf(<<"a", "b">>)]],
     [provider |-> "config", map |-> [k \in {"account_name"} |-> <<"a">>]],
     [provider |-> "credential_chain", map |-> [k \in {"account_name"} |-> <<"a">>]],
     [provider |-> "service_principal", map |-> [k \in {"account_name"} |-> <<"a">>]]}

\* the paths resolved: the short form and the qualified form
ResolvedPaths == {<<"a", "z", ":", "/", "/", "c", "/", "p">>, <<"a", "z", "u", "r", "e", ":", "/", "/", "a", ".", "e", "/", "c", "/", "p">>}

\* ConnectToStorageAccount(opener, path, azure_parsed_url), lines 411-429,
\* called once
ResolveStep ==
    \E conn \in ConnectionStrings, chain \in CredentialChains, account \in AccountNames,
       secret \in Secrets, path \in ResolvedPaths :
        LET Resolved(s, parsed_url) ==
                fn' = [op |-> "resolve", connection_string |-> conn,
                       credential_chain |-> chain, account_name |-> account,
                       secret |-> secret, url |-> parsed_url,
                       client |-> ConnectToStorageAccount(s, secret, parsed_url)]
        IN /\ fn = NoCall
           /\ Resolved([DefaultSettings EXCEPT !.azure_storage_connection_string = conn,
                                               !.azure_credential_chain = chain,
                                               !.azure_account_name = account],
                       ParseUrl(path))
           /\ SessionUnchanged

ResolveSpec == CacheInit /\ [][ResolveStep]_vars

(***************************************************************************)
(* A session that opens files, reads from the open handle, changes the     *)
(* buffer size setting and ends queries.                                   *)
(***************************************************************************)
\* the URLs opened: two for the account of the settings (different scheme
\* and path), two that name the account "a" (different scheme, endpoint,
\* container and path)
HandlePaths ==
    {<<"a", "z", ":", "/", "/", "c", "/", "p">>,
     <<"a", "z", "u", "r", "e", ":", "/", "/", "c", "/", "d", "/", "p">>,
     <<"a", "z", "u", "r", "e", ":", "/", "/", "a", ".", "e", "/", "c", "/", "p">>,
     <<"a", "z", ":", "/", "/", "a", ".", "f", "/", "x", "/", "q">>}

HandleInit ==
    /\ blob = <<>>
    /\ hfh = NoHandle
    /\ rd = NoOutcome
    /\ session_settings = [DefaultSettings EXCEPT !.azure_account_name = <<"b">>]
    /\ session_secret = NoSecret
    /\ registered_state = <<>>
    /\ contexts = <<>>
    /\ call = NoOp
    /\ handed = <<>>
    /\ fn = NoCall
    /\ threads = NoThreads

HandleOpenStep ==
    /\ \E path \in HandlePaths : OpenFile(path, {"READ"}, TRUE, TRUE)
    /\ Len(contexts') <= MaxContexts

\* Read(handle, buffer, nr_bytes, location), lines 235-293, as a call of
\* the session
ReadCall(nr_bytes, location, ok) ==
    LET Done(st) ==
            /\ hfh' = st.h
            /\ rd' = Outcome("read_at", nr_bytes, location, nr_bytes, st)
            /\ call' = [NoOp EXCEPT !.op = "read"]
            /\ UNCHANGED <<blob, session_settings, session_secret, registered_state,
                           contexts, handed, fn, threads>>
    IN Done(ReadAt(hfh, nr_bytes, location, ok))

\* a read on the open handle, of a range within the object
HandleReadStep ==
    /\ hfh.length > 0
    /\ \E nr_bytes \in 1..MaxRead, location \in 0..(hfh.length - 1) :
          /\ location + nr_bytes <= hfh.length
          /\ ReadCall(nr_bytes, location, TRUE)

\* SET azure_read_buffer_size: to one byte or to the default
SetBufferSizeStep == \E n \in {1, MaxBuf} : SetSetting("azure_read_buffer_size", n)

HandleSessionEndStep == SessionEnd

HandleNext ==
    \/ HandleOpenStep
    \/ HandleReadStep
    \/ SetBufferSizeStep
    \/ HandleSessionEndStep

HandleSpec == HandleInit /\ [][HandleNext]_vars

(***************************************************************************)
(* GetOrCreateStorageContext, lines 386-405, called by the threads of one  *)
(* query with caching enabled.  Nothing in the function takes a lock, so   *)
(* the calls of two threads interleave between the lookup in               *)
(* registered_state, CreateStorageContext and the write to the map.        *)
(***************************************************************************)
\* registered_state.insert(make_pair(key, result)), line 393: the entry of
\* a key that is there is kept
Insert(rs, key, id) ==
    [k \in (DOMAIN rs) \cup {key} |-> IF k \in DOMAIN rs THEN rs[k] ELSE id]

\* the rest of the session stays as it is
OnlyCacheChanges ==
    UNCHANGED <<readVars, session_settings, session_secret, call, handed, fn>>

\* lines 389-402: find, and IsValid on the entry found
FindStep(t) ==
    \E path \in HandlePaths :
        LET Found(key) ==
                IF key \notin DOMAIN registered_state
                THEN [Idle EXCEPT !.pc = "create_insert", !.key = key]
                ELSE IF ~IsValid(contexts[registered_state[key]])
                THEN [Idle EXCEPT !.pc = "create_assign", !.key = key]
                ELSE [Idle EXCEPT !.pc = "done", !.key = key,
                                  !.result = registered_state[key]]
        IN /\ threads[t].pc = "idle"
           /\ session_settings.azure_context_caching
           /\ threads' = [threads EXCEPT ![t] = Found(ParseUrl(path).storage_account_name)]
           /\ UNCHANGED <<registered_state, contexts>>
           /\ OnlyCacheChanges

\* lines 392 and 400: CreateStorageContext
CreateStep(t) ==
    \E path \in HandlePaths :
        LET Created(fresh) ==
                /\ ~fresh.threw
                /\ contexts' = Append(contexts, fresh.context)
                /\ threads' = [threads EXCEPT
                                 ![t].pc = IF threads[t].pc = "create_insert"
                                           THEN "insert" ELSE "assign",
                                 ![t].result = Len(contexts) + 1,
                                 ![t].built = TRUE]
        IN /\ threads[t].pc \in {"create_insert", "create_assign"}
           /\ ParseUrl(path).storage_account_name = threads[t].key
           /\ Len(contexts) < MaxContexts
           /\ Created(CreateStorageContext(session_settings, session_secret, ParseUrl(path)))
           /\ UNCHANGED registered_state
           /\ OnlyCacheChanges

\* line 393: registered_state.insert
InsertStep(t) ==
    /\ threads[t].pc = "insert"
    /\ registered_state' = Insert(registered_state, threads[t].key, threads[t].result)
    /\ threads' = [threads EXCEPT ![t].pc = "done"]
    /\ UNCHANGED contexts
    /\ OnlyCacheChanges

\* line 401: registered_state[key] = result
AssignStep(t) ==
    /\ threads[t].pc = "assign"
    /\ registered_state' = Register(registered_state, threads[t].key, threads[t].result)
    /\ threads' = [threads EXCEPT ![t].pc = "done"]
    /\ UNCHANGED contexts
    /\ OnlyCacheChanges

\* the query ends once no thread is inside the function: QueryEnd on every
\* registered state
ConcurrentQueryEnd ==
    /\ \A t \in Openers : threads[t].pc \in {"idle", "done"}
    /\ \E t \in Openers : threads[t].pc = "done"
    /\ contexts' = [i \in 1..Len(contexts) |->
                      IF \E k \in DOMAIN registered_state : registered_state[k] = i
                      THEN QueryEnd(contexts[i])
                      ELSE contexts[i]]
    /\ threads' = NoThreads
    /\ UNCHANGED registered_state
    /\ OnlyCacheChanges

ConcurrentNext ==
    \/ \E t \in Openers : FindStep(t)
    \/ \E t \in Openers : CreateStep(t)
    \/ \E t \in Openers : InsertStep(t)
    \/ \E t \in Openers : AssignStep(t)
    \/ ConcurrentQueryEnd

ConcurrentSpec == HandleInit /\ [][ConcurrentNext]_vars

(***************************************************************************)
(* Properties of the read engine (checked under ReadSpec).                 *)
(***************************************************************************)
IsRead(r) == r.op \in {"read_at", "read"}

Buffered(h) == "DIRECT_IO" \notin h.flags

\* the bytes the remote object holds at [offset, offset + n)
ObjectBytes(offset, n) == [i \in 1..n |-> blob[offset + i]]

\* every ranged fetch of the outcome r lies inside the object
FetchesInsideObject(r) ==
    \A k \in 1..Len(r.fetches) : r.fetches[k].offset + r.fetches[k].len <= Len(blob)

\* C1: every read that returns, on a buffered or a direct-I/O handle and by
\* either form of read, whose range [offset, offset + n) lies within the
\* object has delivered exactly the object's bytes of that range.
C1_ReadDeliversObjectBytes ==
    (IsRead(rd) /\ ~rd.threw /\ rd.location + rd.ret <= hfh.length)
        => rd.out = ObjectBytes(rd.location, rd.ret)

\* a read served partly from the read-ahead buffer and partly by a direct fetch
C1_Witness_BufferThenBypass ==
    /\ IsRead(rd) /\ ~rd.threw /\ Buffered(hfh)
    /\ rd.location + rd.ret <= hfh.length
    /\ Len(rd.fetches) = 1
    /\ rd.fetches[1].kind = "direct"
    /\ rd.fetches[1].len < rd.ret

\* C7: on a buffered handle a read whose whole range lies inside the window
\* a refill established issues no ranged fetch and leaves the window as it
\* is; and a read of at most a buffer's worth that starts outside the
\* window issues one refill that establishes the window at its offset, so a
\* run of sequential reads inside that window costs one fetch in total.
C7_WindowReadsIssueNoFetch ==
    /\ [][(/\ IsRead(rd') /\ Buffered(hfh)
           /\ rd'.ret > 0
           /\ hfh.buffer_start <= rd'.location
           /\ rd'.location + rd'.ret <= hfh.buffer_end)
          => (/\ rd'.fetches = <<>>
              /\ ~rd'.threw
              /\ hfh'.buffer_start = hfh.buffer_start
              /\ hfh'.buffer_end = hfh.buffer_end
              /\ hfh'.read_buffer = hfh.read_buffer)]_vars
    /\ [][(/\ IsRead(rd') /\ Buffered(hfh) /\ ~rd'.threw
           /\ rd'.ret > 0
           /\ (rd'.location < hfh.buffer_start \/ rd'.location >= hfh.buffer_end)
           /\ rd'.location + rd'.ret <= hfh.length
           /\ rd'.ret <= hfh.read_options.buffer_size)
          => (/\ Len(rd'.fetches) = 1
              /\ rd'.fetches[1].kind = "refill"
              /\ hfh'.buffer_start = rd'.location
              /\ hfh'.buffer_end = rd'.location +
                     MinValue(hfh.read_options.buffer_size, hfh.length - rd'.location))]_vars

\* an implicit-offset read after a backward seek, served from the window alone
C7_Witness_BackwardSeekHit ==
    /\ rd.op = "read" /\ Buffered(hfh) /\ ~rd.threw
    /\ rd.ret > 0
    /\ rd.fetches = <<>>
    /\ hfh.buffer_start <= rd.location
    /\ rd.location + rd.ret < hfh.buffer_end

\* the part of a read of n bytes at location that the window of h cannot serve
BeyondWindow(h, location, n) ==
    IF h.buffer_start <= location /\ location < h.buffer_end
    THEN n - MinValue(h.buffer_end - location, n)
    ELSE n

Remaining(h, offset) == IF offset <= h.length THEN h.length - offset ELSE 0

\* C9: the implicit-offset read returns the requested length clamped to the
\* length that remains from the current offset, also for an offset beyond
\* the end, and no fetch it issues reaches past end-of-file.
C9_ImplicitReadClamps ==
    rd.op = "read"
        => (/\ rd.ret = MinValue(rd.nr_bytes, Remaining(hfh, rd.location))
            /\ FetchesInsideObject(rd))

\* C10: seek sets the logical offset and nothing else: no fetch, and the
\* window, cursor, available count, buffer, length and options stay.
C10_SeekOnlyMovesOffset ==
    [][rd'.op = "seek"
       => (/\ hfh' = [hfh EXCEPT !.file_offset = rd'.location]
           /\ rd'.fetches = <<>>
           /\ blob' = blob)]_vars

\* a seek on a handle whose window holds unread bytes
C10_Witness_SeekWithWindow ==
    /\ rd.op = "seek"
    /\ hfh.buffer_end > hfh.buffer_start
    /\ hfh.buffer_available > 0
    /\ hfh.file_offset > hfh.buffer_end

(***************************************************************************)
(* Properties of the context cache, checked under CacheSpec.               *)
(***************************************************************************)
\* the step is an open or a glob that reached GetOrCreateStorageContext
Lookup(c) == c.op \in {"open", "glob"} /\ c.lookup

\* the entry of the account name holds a context that is no longer valid
Invalidated(key) ==
    key \in DOMAIN registered_state /\ ~contexts[registered_state[key]].is_valid

\* the step built one new context and the call was handed it
HandedNew(c) ==
    /\ c.ctx = Len(contexts) + 1
    /\ Len(contexts') = Len(contexts) + 1
    /\ \A i \in 1..Len(contexts) : contexts'[i] = contexts[i]

\* C2: with caching enabled, an open or glob for an account name for which
\* an earlier open or glob made with caching enabled since the last session
\* end was handed a context is handed that same context, and
\* CreateStorageContext (the credential resolver) does not run for it.
C2_SameKeySameContext ==
    [][(/\ Lookup(call')
        /\ session_settings.azure_context_caching
        /\ call'.key \in DOMAIN handed)
         => (call'.ctx = handed[call'.key] /\ ~call'.built)]_vars

\* a glob is handed, without a build, the context an earlier call got
C2_Witness_GlobReusesContext ==
    /\ call.op = "glob" /\ call.lookup /\ ~call.built
    /\ call.ctx = 1 /\ call.error = "none"
    /\ session_settings.azure_context_caching
    /\ call.key \in DOMAIN handed /\ handed[call.key] = 1

\* C3: when the entry of the account name holds a context that a session
\* end has invalidated, an open or glob with caching enabled runs
\* CreateStorageContext and is not handed the invalidated context; unless
\* CreateStorageContext throws, it is handed the new context, which is
\* valid and is the entry of the account name afterwards.
C3_InvalidatedEntryIsReplaced ==
    [][(/\ Lookup(call')
        /\ session_settings.azure_context_caching
        /\ Invalidated(call'.key))
         => /\ call'.built
            /\ call'.ctx # registered_state[call'.key]
            /\ call'.ctx # 0 =>
                  /\ HandedNew(call')
                  /\ contexts'[call'.ctx].is_valid
                  /\ registered_state'[call'.key] = call'.ctx]_vars

\* the only account name of the map had context 1, a session end
\* invalidated it, and the open that followed was handed context 2
C3_Witness_RebuiltAfterSessionEnd ==
    /\ call.op = "open" /\ call.lookup /\ call.built /\ call.ctx = 2
    /\ session_settings.azure_context_caching
    /\ DOMAIN registered_state = {call.key}
    /\ registered_state[call.key] = 2
    /\ ~contexts[1].is_valid /\ contexts[2].is_valid

\* C4: with caching disabled, an open or glob runs CreateStorageContext,
\* leaves registered_state as it is and, unless CreateStorageContext
\* throws, is handed a context that did not exist before the call.
C4_CachingDisabledAlwaysBuilds ==
    [][(Lookup(call') /\ ~session_settings.azure_context_caching)
         => /\ call'.built
            /\ registered_state' = registered_state
            /\ call'.ctx # 0 => HandedNew(call')]_vars

\* caching is disabled, the account name has a valid entry, and the call
\* was handed a new context all the same
C4_Witness_ValidEntryNotUsed ==
    /\ Lookup(call) /\ call.built /\ call.ctx = 2
    /\ ~session_settings.azure_context_caching
    /\ call.key \in DOMAIN registered_state
    /\ registered_state[call.key] = 1
    /\ contexts[1].is_valid

\* C5: the context a handle is built from is valid when the handle is
\* built.
C5_HandleFromValidContext ==
    [][call'.handle
         => (call'.ctx \in 1..Len(contexts') /\ contexts'[call'.ctx].is_valid)]_vars

\* a handle is built for an account name whose earlier context a session
\* end has invalidated
C5_Witness_HandleAfterSessionEnd ==
    /\ call.handle /\ call.ctx = 2 /\ contexts[2].is_valid
    /\ hfh.length > 0
    /\ \E i \in 1..Len(contexts) : ~contexts[i].is_valid

\* C6: a context is valid when it is built; its flag changes only from
\* valid to invalid and only in a session end.
C6_ValidFlagOneWay ==
    [][/\ Len(contexts') >= Len(contexts)
       /\ \A i \in 1..Len(contexts') :
            IF i > Len(contexts)
            THEN contexts'[i].is_valid
            ELSE contexts'[i].is_valid # contexts[i].is_valid
                   => (contexts[i].is_valid /\ call'.op = "query_end")]_vars

\* a session end that finds one context invalid already and leaves another,
\* which is not in the map, valid
C6_Witness_SecondSessionEnd ==
    /\ call.op = "query_end"
    /\ Len(contexts) = 2
    /\ ~contexts[1].is_valid /\ contexts[2].is_valid
    /\ \E k \in DOMAIN registered_state : registered_state[k] = 1

\* the handle has never filled its read-ahead buffer
BufferUntouched(h) ==
    /\ h.buffer_available = 0 /\ h.buffer_idx = 0
    /\ h.buffer_start = 0 /\ h.buffer_end = 0
    /\ \A i \in 1..Len(h.read_buffer) : h.read_buffer[i] \in JunkBytes

\* C11 as stated: on a direct-I/O handle every read, of any length, issues
\* exactly one ranged fetch, a direct one of the length asked at the offset
\* asked, and the buffer is left reset and unfilled.
C11_DirectReadAlwaysOneFetch ==
    (IsRead(rd) /\ ~Buffered(hfh))
        => /\ rd.fetches = <<Fetch("direct", rd.location, rd.ret)>>
           /\ BufferUntouched(hfh)

\* C11: on a direct-I/O handle a read of a length above zero issues exactly
\* one ranged fetch, a direct one of the length asked at the offset asked,
\* and a read of length zero issues none; either way the buffer is left
\* reset and is never filled.
C11_DirectReadBypassesBuffer ==
    (IsRead(rd) /\ ~Buffered(hfh))
        => /\ rd.fetches = IF rd.ret > 0
                           THEN <<Fetch("direct", rd.location, rd.ret)>>
                           ELSE <<>>
           /\ BufferUntouched(hfh)

\* a direct-I/O handle with a buffer to fill has read bytes from inside the
\* object at an offset above zero
C11_Witness_DirectRead ==
    /\ rd.op = "read_at" /\ ~rd.threw /\ ~Buffered(hfh)
    /\ hfh.read_options.buffer_size > 0
    /\ rd.location > 0 /\ rd.ret > 0
    /\ rd.location + rd.ret <= hfh.length
    /\ Len(rd.fetches) = 1

\* C12: an open whose flags include the write flag, whatever its path and
\* with or without an opener, throws NotImplementedException and leaves the
\* session (settings, secret, registered_state, the contexts) and the handle
\* as they were: no URL was parsed, no context looked up or built, no
\* metadata fetched.
C12_WriteOpenFailsFirst ==
    [][\A path \in Paths, flags \in OpenFlagSets, has_opener \in BOOLEAN, meta_ok \in BOOLEAN :
          ("WRITE" \in flags /\ OpenFile(path, flags, has_opener, meta_ok))
            => /\ call'.error = "NotImplementedException"
               /\ ~call'.lookup /\ ~call'.built /\ ~call'.handle /\ call'.ctx = 0
               /\ UNCHANGED <<readVars, session_settings, session_secret,
                              registered_state, contexts>>]_vars

\* an open for writing has failed in a session whose map holds a context
C12_Witness_WriteOpenWithCache ==
    /\ call.op = "open" /\ call.error = "NotImplementedException"
    /\ registered_state # <<>>
    /\ \E k \in DOMAIN registered_state : contexts[registered_state[k]].is_valid

\* C13 as stated: FileExists returns true exactly when an open of the path
\* for reading, made by a caller of the session (with its opener) while the
\* service answers, builds a handle of a length other than zero.
C13_FileExistsIffOpenSucceeds ==
    [][\A filename \in Paths, meta_ok \in BOOLEAN :
          FileExists(filename, meta_ok)
            => (call'.exists
                  <=> /\ TryOpen(filename, {"READ"}, TRUE, meta_ok).error = "none"
                      /\ TryOpen(filename, {"READ"}, TRUE, meta_ok).length # 0)]_vars

(***************************************************************************)
(* Properties of Match, checked under MatchSpec.                           *)
(***************************************************************************)
\* the reference relation: an ordinary pattern segment globs exactly one
\* segment of the key, and a segment "**" stands for zero or more whole
\* segments of the key
RECURSIVE RefMatch(_, _)
RefMatch(key, pattern) ==
    IF pattern = <<>> THEN key = <<>>
    ELSE IF Head(pattern) = <<"*", "*">>
    THEN \E k \in 0..Len(key) : RefMatch(SubSeq(key, k + 1, Len(key)), Tail(pattern))
    ELSE /\ key # <<>>
         /\ LikeGlob(Head(key), Head(pattern))
         /\ RefMatch(Tail(key), Tail(pattern))

\* C14 as stated: Match(key, pattern) is the reference relation, for all
\* keys and patterns of at most MaxSegments segments.
C14_MatchIsReference ==
    fn.op = "match" => (fn.result <=> RefMatch(fn.key, fn.pattern))

(***************************************************************************)
(* Properties of Glob, checked under GlobSpec.                             *)
(***************************************************************************)
\* the path part of the URL of the call
UrlPath(c) == ParseUrl(c.path).path

\* the characters that LikeFun::Glob does not match literally
WildcardChars == {"*", "?", "[", "\\"}

NoWildcard(path) == \A i \in 1..Len(path) : path[i] \notin WildcardChars

IsWildcardPath(c) == \E i \in 1..Len(UrlPath(c)) : UrlPath(c)[i] \in {"*", "[", "\\"}

\* the URL Glob builds for a key: scheme prefix, account and endpoint when
\* the URL names them, container, key
RebuiltUrl(c, name) ==
    LET Url(u) == IF u.storage_account_name = <<>>
                  THEN u.prefix \o u.container \o <<"/">> \o name
                  ELSE u.prefix \o u.storage_account_name \o <<".">> \o u.endpoint
                           \o <<"/">> \o u.container \o <<"/">> \o name
    IN Url(ParseUrl(c.path))

\* the keys of the container that Match accepts against the whole path of
\* the call, in listing order, as URLs
MatchedKeys(c) ==
    LET Accepted(b) == Match(Split(b.name, <<"/">>), Split(UrlPath(c), <<"/">>))
        Urls(keys) == [i \in 1..Len(keys) |-> RebuiltUrl(c, keys[i].name)]
    IN Urls(SelectSeq(Listing, Accepted))

\* C16: a glob of a wildcard path that returns, returns the keys of the
\* container that the matcher accepts against the full pattern, each once,
\* in listing order, each as a URL of the scheme, account and container of
\* the path: the prefix sent to the service excludes no such key.
C16_GlobIsMatchedKeys ==
    (call.op = "glob" /\ call.error = "none" /\ call.ctx # 0 /\ IsWildcardPath(call))
        => call.result = MatchedKeys(call)

\* the prefix Glob sends with its listing calls: the path up to the first
\* of '*', '[' and '\'
SharedPath(c) == Substr(UrlPath(c), 0, FindFirstOf(UrlPath(c), {"*", "[", "\\"}))

\* the keys under the prefix of the call that Match accepts, as URLs
MatchedUnderPrefix(c) ==
    LET Accepted(b) == /\ HasAt(b.name, SharedPath(c), 0)
                       /\ Match(Split(b.name, <<"/">>), Split(UrlPath(c), <<"/">>))
        Urls(keys) == [i \in 1..Len(keys) |-> RebuiltUrl(c, keys[i].name)]
    IN Urls(SelectSeq(Listing, Accepted))

\* C17: the first listing call of a glob carries no continuation token and
\* each later one the token of the response before it; no token is sent
\* twice; the glob returns only after a response without token, with the
\* matches of every page.
C17_PagesChainedAndDrained ==
    (call.op = "glob" /\ call.tokens # <<>>)
        => /\ call.tokens[1] = 0
           /\ \A i \in 2..Len(call.tokens) :
                 /\ call.tokens[i] # 0
                 /\ call.tokens[i] = ListBlobs(SharedPath(call), call.tokens[i - 1]).NextPageToken
           /\ \A i, j \in 1..Len(call.tokens) : call.tokens[i] = call.tokens[j] => i = j
           /\ call.error = "none"
                 => /\ ListBlobs(SharedPath(call),
                                 call.tokens[Len(call.tokens)]).NextPageToken = 0
                    /\ call.result = MatchedUnderPrefix(call)

\* a glob returned after two pages, with a match from each
C17_Witness_TwoPagesDrained ==
    /\ call.op = "glob" /\ call.error = "none"
    /\ Len(call.tokens) = 2
    /\ \E i \in 1..Len(call.result) :
          call.result[i] = RebuiltUrl(call, ListBlobs(SharedPath(call), 0).Blobs[PageSize].name)
    /\ \E i \in 1..Len(call.result) :
          call.result[i] = RebuiltUrl(call, ListBlobs(SharedPath(call), PageSize).Blobs[1].name)

\* C18: when the listing call number fail_at of a glob fails, the glob
\* throws an IOException, it has made no listing call after that one, and
\* it returns none of the matches of the pages before.
C18_ListingFailureAbortsGlob ==
    [][\A path \in GlobUrls, fail_at \in 1..MaxPages :
          (Glob(path, TRUE, fail_at) /\ Len(call'.tokens) >= fail_at)
              => /\ call'.error = "IOException"
                 /\ Len(call'.tokens) = fail_at
                 /\ call'.result = <<>>]_vars

\* a glob failed at its second listing call, after a page with a match
C18_Witness_FailedAfterOnePage ==
    /\ call.op = "glob" /\ call.error = "IOException"
    /\ Len(call.tokens) = 2 /\ call.result = <<>>
    /\ \E i \in 1..PageSize :
          Match(Split(ListBlobs(SharedPath(call), 0).Blobs[i].name, <<"/">>),
                Split(UrlPath(call), <<"/">>))

(***************************************************************************)
(* Properties of ParseUrl, checked under ParseSpec.                        *)
(***************************************************************************)
\* the URL begins with one of the two schemes
HasScheme(url) == HasAt(url, AzScheme, 0) \/ HasAt(url, AzureScheme, 0)

\* the URL without its scheme
AfterScheme(url) ==
    IF HasAt(url, AzScheme, 0) THEN SubSeq(url, Len(AzScheme) + 1, Len(url))
    ELSE SubSeq(url, Len(AzureScheme) + 1, Len(url))

\* the text up to the first '/' (all of it when there is none)
FirstSegment(s) ==
    IF \E i \in 1..Len(s) : s[i] = "/"
    THEN SubSeq(s, 1, (CHOOSE i \in 1..Len(s) :
                          s[i] = "/" /\ \A j \in 1..(i - 1) : s[j] # "/") - 1)
    ELSE s

\* the text after the first '/'
AfterFirstSegment(s) == SubSeq(s, Len(FirstSegment(s)) + 2, Len(s))

\* a URL of one of the two shapes that is malformed: no '/' after the
\* authority, or an empty container segment, which is the authority in the
\* short form and the segment after the authority in the qualified form
\* (authority with a '.')
Malformed(url) ==
    LET NoSlash(tail) == \A i \in 1..Len(tail) : tail[i] # "/"
        Qualified(authority) == \E i \in 1..Len(authority) : authority[i] = "."
        Bad(tail) ==
            \/ NoSlash(tail)
            \/ ~Qualified(FirstSegment(tail)) /\ FirstSegment(tail) = <<>>
            \/ Qualified(FirstSegment(tail)) /\ FirstSegment(AfterFirstSegment(tail)) = <<>>
    IN HasScheme(url) /\ Bad(AfterScheme(url))

\* C19: ParseUrl throws the invalid-format error for every URL of either
\* shape that has no '/' after the authority or an empty container.
C19_MalformedUrlRejected ==
    (fn.op = "parse" /\ Malformed(fn.url))
        => (~fn.parsed.ok /\ fn.parsed.error = "IOException: invalid url format")

\* the URL Glob builds from the fields of a parsed URL and a key, lines
\* 199 and 218
Rebuild(u) ==
    IF u.storage_account_name = <<>>
    THEN u.prefix \o u.container \o <<"/">> \o u.path
    ELSE u.prefix \o u.storage_account_name \o <<".">> \o u.endpoint
             \o <<"/">> \o u.container \o <<"/">> \o u.path

\* C20: for every URL that ParseUrl accepts, the URL rebuilt from the
\* parsed fields the way Glob rebuilds it is the URL that was parsed.
C20_ParseRebuildRoundTrip ==
    (fn.op = "parse" /\ fn.parsed.ok) => Rebuild(fn.parsed) = fn.url

(***************************************************************************)
(* Properties of the credential resolver, checked under ResolveSpec.       *)
(***************************************************************************)
\* the sources a client can come from
SecretSources ==
    {"secret:config:connection_string", "secret:config:anonymous",
     "secret:credential_chain", "secret:service_principal"}

\* C21: a secret found for the path is the source of the client whatever
\* the settings; without a secret, a connection string that is set is the
\* source; without it, a credential chain that is set; the anonymous
\* client is built only when none of them is there.
C21_FirstSourceWins ==
    (fn.op = "resolve" /\ ~fn.client.threw)
        => /\ fn.secret # NoSecret => fn.client.source \in SecretSources
           /\ (fn.secret = NoSecret /\ fn.connection_string # <<>>)
                 => fn.client.source = "settings:connection_string"
           /\ (fn.secret = NoSecret /\ fn.connection_string = <<>>
                 /\ fn.credential_chain # <<>>)
                 => fn.client.source = "settings:credential_chain"
           /\ (fn.secret = NoSecret /\ fn.connection_string = <<>>
                 /\ fn.credential_chain = <<>>)
                 => fn.client.source = "settings:anonymous"

\* the text up to the first c (all of it when there is none)
FirstSegmentUpTo(s, c) ==
    IF \E i \in 1..Len(s) : s[i] = c
    THEN SubSeq(s, 1, (CHOOSE i \in 1..Len(s) :
                          s[i] = c /\ \A j \in 1..(i - 1) : s[j] # c) - 1)
    ELSE s

\* the account name a connection string holds: the text between
\* "AccountName=" and the next ';'
EmbeddedAccount(connection_string) ==
    LET After(pos) == SubSeq(connection_string, pos + 13, Len(connection_string))
    IN FirstSegmentUpTo(After(Find(connection_string, AccountNameKey, 0)), ";")

\* the connection string that the order of the sources selects: the one of
\* a config secret, else, without a secret, the one of the settings
SelectedConnectionString(f) ==
    IF f.secret # NoSecret
    THEN IF f.secret.provider = "config" /\ SecretHas(f.secret, "connection_string")
         THEN SecretValue(f.secret, "connection_string")
         ELSE <<>>
    ELSE f.connection_string

\* C22: when the selected source is a connection string that holds an
\* account name and the URL names another account, the resolution throws
\* and builds no client.
C22_MismatchedConnectionStringFails ==
    (/\ fn.op = "resolve"
     /\ SelectedConnectionString(fn) # <<>>
     /\ Find(SelectedConnectionString(fn), AccountNameKey, 0) # NPos
     /\ fn.url.storage_account_name # <<>>
     /\ EmbeddedAccount(SelectedConnectionString(fn)) # fn.url.storage_account_name)
        => fn.client.threw

(***************************************************************************)
(* Properties of the read options and of open handles, checked under       *)
(* HandleSpec.                                                             *)
(***************************************************************************)
\* C23: a context takes its read options from the settings when it is
\* built and keeps them whatever the settings become; a handle opened from
\* a context takes the options of the context, not those of the settings.
C23_ReadOptionsFixedAtBuild ==
    [][/\ \A i \in 1..Len(contexts) : contexts'[i].read_options = contexts[i].read_options
       /\ (call'.op = "open" /\ call'.ctx # 0 /\ call'.built)
             => contexts'[call'.ctx].read_options
                   = [transfer_concurrency |-> session_settings.azure_read_transfer_concurrency,
                      transfer_chunk_size  |-> session_settings.azure_read_transfer_chunk_size,
                      buffer_size          |-> session_settings.azure_read_buffer_size]
       /\ (call'.op = "open" /\ call'.handle)
             => /\ hfh'.read_options = contexts'[call'.ctx].read_options
                /\ Len(hfh'.read_buffer) = contexts'[call'.ctx].read_options.buffer_size]_vars

\* a handle was opened from a cached context after the buffer size setting
\* was changed: its options are not those of the settings
C23_Witness_HandleKeepsContextOptions ==
    /\ call.op = "open" /\ call.handle /\ ~call.built
    /\ hfh.read_options.buffer_size # session_settings.azure_read_buffer_size

\* C24: the end of a query, and a call that replaces the entry of the
\* cache without returning a handle, leave the open handle and its object
\* as they are; a read on the handle delivers the bytes of its object and
\* keeps the handle's length and options, whatever has become of the
\* contexts.
C24_OpenHandleSurvivesInvalidation ==
    [][/\ (call'.op = "query_end" \/ (call'.op = "open" /\ ~call'.handle))
             => (hfh' = hfh /\ blob' = blob)
       /\ call'.op = "read"
             => /\ ~rd'.threw /\ rd'.out = SubSeq(blob, rd'.location + 1,
                                                  rd'.location + rd'.nr_bytes)
                /\ hfh'.length = hfh.length /\ hfh'.read_options = hfh.read_options
                /\ blob' = blob]_vars

\* the last call is a read on a handle of the first context for the
\* account "a", after that context was invalidated and replaced in the
\* cache by a second one with other options
C24_Witness_ReadAfterReplacement ==
    /\ call.op = "read" /\ rd.op = "read_at" /\ Len(rd.out) > 0
    /\ Len(contexts) = 2 /\ DOMAIN registered_state = {<<"a">>}
    /\ registered_state[<<"a">>] = 2
    /\ ~contexts[1].is_valid /\ contexts[2].is_valid
    /\ hfh.read_options = contexts[1].read_options
    /\ hfh.read_options # contexts[2].read_options

(***************************************************************************)
(* Property of concurrent opens, checked under ConcurrentSpec.             *)
(***************************************************************************)
\* C25: when two threads of a query have been through
\* GetOrCreateStorageContext for the same account key, at most one of them
\* built a context and both were given the same context.
C25_ConcurrentOpensShareContext ==
    \A t, u \in Openers :
        (t # u /\ threads[t].pc = "done" /\ threads[u].pc = "done"
               /\ threads[t].key = threads[u].key)
            => /\ threads[t].result = threads[u].result
               /\ ~(threads[t].built /\ threads[u].built)

(***************************************************************************)
(* Glob and the wildcard '?', checked under GlobSpec.                      *)
(***************************************************************************)
\* the path of the call holds a wildcard of the syntax of LikeFun::Glob
HasShellWildcard(c) == \E i \in 1..Len(UrlPath(c)) : UrlPath(c)[i] \in {"*", "?", "["}

\* C26: a glob of a path with a '*', a '?' or a '[' that has its context
\* makes at least one listing call, and everything it returns is the URL of
\* a listed key that the matcher accepts; so a path whose only wildcard is
\* '?' does not come back as it was given.
C26_QuestionMarkIsGlobbed ==
    (call.op = "glob" /\ call.lookup /\ call.ctx # 0 /\ HasShellWildcard(call))
        => /\ call.tokens # <<>>
           /\ \A i \in 1..Len(call.result) :
                 \E k \in 1..Len(Listing) :
                    /\ call.result[i] = RebuiltUrl(call, Listing[k].name)
                    /\ Match(Split(Listing[k].name, <<"/">>), Split(UrlPath(call), <<"/">>))

(***************************************************************************)
(* Termination and bounds of the read engine, checked under ReadSpec.      *)
(***************************************************************************)
\* C27: every read ends after at most two iterations of the copy loop and
\* at most one ranged fetch; when the fetch is a refill, what is left of
\* the request fits in the refilled buffer.
C27_ReadTerminatesWithOneFetch ==
    IsRead(rd)
        => /\ rd.iterations <= 2
           /\ Len(rd.fetches) <= 1
           /\ \A k \in 1..Len(rd.fetches) :
                 rd.fetches[k].kind = "refill"
                    => rd.fetches[k].len
                          >= rd.ret - (rd.fetches[k].offset - rd.location)

\* a read took bytes from the buffer, refilled it and took the rest in the
\* second iteration
C27_Witness_CopyRefillCopy ==
    /\ IsRead(rd) /\ ~rd.threw
    /\ rd.iterations = 2
    /\ Len(rd.fetches) = 1 /\ rd.fetches[1].kind = "refill"
    /\ rd.fetches[1].offset > rd.location

\* C28: on a buffered handle the window is never larger than the buffer
\* size and, while bytes are available, cursor + available is the size of
\* the window; the assertion of the copy loop held in every copy of the
\* last call and no copy read outside the buffer.
C28_WindowWithinBuffer ==
    Buffered(hfh)
        => /\ hfh.buffer_end - hfh.buffer_start <= hfh.read_options.buffer_size
           /\ hfh.buffer_start <= hfh.buffer_end
           /\ hfh.buffer_available > 0
                 => hfh.buffer_idx + hfh.buffer_available
                       = hfh.buffer_end - hfh.buffer_start
           /\ rd.assert_ok
           /\ rd.in_bounds

\* a read left a window of the size of the buffer partly consumed
C28_Witness_WindowPartlyConsumed ==
    /\ Buffered(hfh) /\ IsRead(rd) /\ ~rd.threw
    /\ hfh.buffer_end - hfh.buffer_start = hfh.read_options.buffer_size
    /\ hfh.buffer_idx > 0 /\ hfh.buffer_available > 0

\* C29: every ranged fetch of a read whose requested range lies within the
\* object has a length above zero and lies within the object, and a refill
\* asks for no more than the buffer size and no more than what the object
\* holds from the offset of the refill on.
C29_FetchesWithinObject ==
    (IsRead(rd) /\ rd.location + rd.nr_bytes <= hfh.length)
        => \A k \in 1..Len(rd.fetches) :
              /\ rd.fetches[k].len > 0
              /\ rd.fetches[k].offset + rd.fetches[k].len <= Len(blob)
              /\ rd.fetches[k].kind = "refill"
                    => /\ rd.fetches[k].len <= hfh.read_options.buffer_size
                       /\ rd.fetches[k].len <= hfh.length - rd.fetches[k].offset

\* a refill was cut to what was left of the object
C29_Witness_RefillCutAtEnd ==
    /\ IsRead(rd) /\ ~rd.threw /\ rd.location + rd.nr_bytes <= hfh.length
    /\ Len(rd.fetches) = 1 /\ rd.fetches[1].kind = "refill"
    /\ rd.fetches[1].len < hfh.read_options.buffer_size
    /\ rd.fetches[1].offset + rd.fetches[1].len = hfh.length

(***************************************************************************)
(* The key of the cache, checked under HandleSpec.                         *)
(***************************************************************************)
\* C30: with caching enabled, an open of any URL whose account name has a
\* valid entry in the cache is handed the context of that entry, whatever
\* the scheme, endpoint, container and path of the URL, and neither is a
\* context built nor the map or the contexts changed for it.
C30_HitDecidedByAccountKey ==
    [][\A path \in HandlePaths :
          (/\ call'.op = "open" /\ call'.lookup /\ call'.path = path
           /\ session_settings.azure_context_caching
           /\ ParseUrl(path).storage_account_name \in DOMAIN registered_state
           /\ contexts[registered_state[ParseUrl(path).storage_account_name]].is_valid)
             => /\ call'.ctx = registered_state[ParseUrl(path).storage_account_name]
                /\ ~call'.built
                /\ registered_state' = registered_state
                /\ contexts' = contexts]_vars

\* an open of a URL with the endpoint "f" and the container "x" was handed
\* the cached context whose client was built for the endpoint "e"
C30_Witness_OtherUrlSameContext ==
    /\ call.op = "open" /\ call.lookup /\ ~call.built /\ call.ctx # 0
    /\ ParseUrl(call.path).endpoint = <<"f">>
    /\ ParseUrl(call.path).container = <<"x">>
    /\ contexts[call.ctx].service_client.target = Https \o <<"a", ".", "e">>

(***************************************************************************)
(* The order of resolution and wildcard test in Glob, checked under        *)
(* GlobSpec.                                                               *)
(***************************************************************************)
\* C31: a glob of a path without wildcard makes no listing call; when the
\* resolution of the credentials for its URL fails it throws the error of
\* the resolution, and when it returns with caching enabled the cache holds
\* for the account name of the URL the valid context the glob was handed.
C31_GlobResolvesBeforeWildcardTest ==
    [][(call'.op = "glob" /\ call'.lookup /\ NoWildcard(UrlPath(call')))
         => /\ call'.tokens = <<>>
            /\ (/\ call'.key \notin DOMAIN registered_state
                /\ ConnectToStorageAccount(session_settings, session_secret,
                                           ParseUrl(call'.path)).threw)
                  => /\ call'.error
                          = ConnectToStorageAccount(session_settings, session_secret,
                                                    ParseUrl(call'.path)).error
                     /\ call'.result = <<>>
                     /\ call'.ctx = 0
            /\ (call'.error = "none" /\ session_settings.azure_context_caching)
                  => /\ call'.key \in DOMAIN registered_state'
                     /\ registered_state'[call'.key] = call'.ctx
                     /\ contexts'[call'.ctx].is_valid]_vars

\* a glob of a path without wildcard built the context of its account name
\* and left it in the cache, without a listing call
C31_Witness_PlainGlobFillsCache ==
    /\ call.op = "glob" /\ call.error = "none" /\ call.built
    /\ NoWildcard(UrlPath(call)) /\ call.result = <<call.path>> /\ call.tokens = <<>>
    /\ session_settings.azure_context_caching
    /\ call.key \in DOMAIN registered_state /\ registered_state[call.key] = call.ctx
    /\ contexts[call.ctx].is_valid

====
